---- MODULE Spec2Model ----
(***************************************************************************)
(* A model of the mcp_example_resources package: the descriptor            *)
(* (ResourceConfig), the shared Resource helpers, and the two providers    *)
(* HttpResource and ExamplePrivateResources.                               *)
(*                                                                         *)
(* Text is modelled as a sequence of fragments.  URIs, parameter keys and  *)
(* parameter values are sequences of one-character fragments, so that      *)
(* str.startswith and str.replace are modelled character by character.     *)
(* Fixed literals of handler results are kept as single fragments.         *)
(***************************************************************************)
EXTENDS Integers, Sequences, FiniteSets, TLC

VARIABLES
    provider,            \* class of the constructed provider
    resource_instances,  \* self.resource_instances
    constructed,         \* history: resource_instances as left by __init__
    calls,               \* the coroutines in flight, by call id
    s_uri,               \* substitute_parameters: argument uri
    s_parameters,        \* substitute_parameters: argument parameters
    s_result,            \* substitute_parameters: returned string
    s_pc,                \* substitute_parameters: "call" | "done"
    g_via,               \* get_parameter_schema: class whose method is called
    resource_parameters, \* get_parameter_schema: self.resource_parameters
    schema,              \* get_parameter_schema: returned dict
    g_pc                 \* get_parameter_schema: "call" | "done"

provVars == <<provider, resource_instances, constructed, calls>>
substVars == <<s_uri, s_parameters, s_result, s_pc>>
schemaVars == <<g_via, resource_parameters, schema, g_pc>>
vars == <<provider, resource_instances, constructed, calls,
          s_uri, s_parameters, s_result, s_pc,
          g_via, resource_parameters, schema, g_pc>>

(***************************************************************************)
(* Bounds of the model.                                                    *)
(***************************************************************************)
MaxUriLen == 4
MaxParams == 2
MaxParamDecls == 2
MaxResources == 2
NumCalls == 2

(***************************************************************************)
(* Text helpers.                                                           *)
(***************************************************************************)
RECURSIVE SeqsUpTo(_, _)
SeqsUpTo(S, n) ==
    IF n = 0 THEN {<<>>}
    ELSE LET shorter == SeqsUpTo(S, n - 1)
         IN shorter \cup {Append(s, x) : s \in {t \in shorter : Len(t) = n - 1}, x \in S}

Range(s) == {s[i] : i \in DOMAIN s}

\* str.startswith(prefix)
startswith(s, prefix) ==
    /\ Len(s) >= Len(prefix)
    /\ SubSeq(s, 1, Len(prefix)) = prefix

\* str.replace(old, new) for a non-empty old: the non-overlapping
\* occurrences of old, found left to right, are replaced.
RECURSIVE replace(_, _, _)
replace(s, old, new) ==
    IF Len(s) = 0 THEN <<>>
    ELSE IF startswith(s, old)
         THEN new \o replace(SubSeq(s, Len(old) + 1, Len(s)), old, new)
         ELSE <<Head(s)>> \o replace(Tail(s), old, new)

\* One decimal digit, and str(n) of a non-negative int.
Digit(d) == <<"0", "1", "2", "3", "4", "5", "6", "7", "8", "9">>[d + 1]

RECURSIVE IntStr(_)
IntStr(n) == IF n < 10 THEN <<Digit(n)>> ELSE Append(IntStr(n \div 10), Digit(n % 10))

\* Parameter values are Python strings or ints.
StrVal(s) == [t |-> "str", v |-> s]
IntVal(n) == [t |-> "int", v |-> n]

\* str(value)
str(value) == IF value.t = "int" THEN IntStr(value.v) ELSE value.v

\* Optional[Dict[str, Any]]: None, or a dict as its items in insertion order.
NoneDict == [some |-> FALSE, items |-> <<>>]
Dict(items) == [some |-> TRUE, items |-> items]

\* Truth value of an Optional[Dict]: None and {} are false.
Truthy(parameters) == parameters.some /\ Len(parameters.items) > 0

\* Dicts of at most n items over the given keys (distinct) and values.
DictsOver(Keys, Values, n) ==
    {Dict(items) : items \in
        {q \in SeqsUpTo([key : Keys, value : Values], n) :
            \A i, j \in DOMAIN q : i # j => q[i].key # q[j].key}}

(***************************************************************************)
(* Resource.validate_parameters and Resource.substitute_parameters.        *)
(***************************************************************************)
\* parameters or {}
validate_parameters(parameters) ==
    IF Truthy(parameters) THEN parameters ELSE Dict(<<>>)

\* f"{{{key}}}"
placeholder(key) == <<"{">> \o key \o <<"}">>

\* The loop of substitute_parameters from item i on.
RECURSIVE substitute_from(_, _, _)
substitute_from(result, items, i) ==
    IF i > Len(items) THEN result
    ELSE substitute_from(
            replace(result, placeholder(items[i].key), str(items[i].value)),
            items, i + 1)

substitute_parameters(uri, parameters) ==
    substitute_from(uri, parameters.items, 1)

(***************************************************************************)
(* ResourceConfig.get_parameter_schema and Resource.get_parameter_schema.  *)
(* A declared parameter is a ResourceParameter; allowed_values is a str or *)
(* a list of str.  A dict is a function on its set of keys.                *)
(***************************************************************************)
StrAllowed(s) == [t |-> "str", v |-> s]
ListAllowed(l) == [t |-> "list", v |-> l]

EmptyDict == [k \in {} |-> k]

\* d[k] = v on a dict
DictSet(d, k, v) == [n \in DOMAIN d \cup {k} |-> IF n = k THEN v ELSE d[n]]

\* The body of the for loop: the schema of one parameter.
param_schema(param) ==
    IF param.allowed_values.t = "str"
    THEN [description |-> param.description,
          type |-> IF param.allowed_values.v = "string" THEN "string"
                   ELSE IF param.allowed_values.v = "number" THEN "number"
                   ELSE IF param.allowed_values.v = "boolean" THEN "boolean"
                   ELSE "string"]
    ELSE [description |-> param.description,
          type |-> "string",
          enum |-> param.allowed_values.v]

\* The for loop from parameter i on, then the returned dict.
RECURSIVE schema_from(_, _, _, _)
schema_from(params, i, properties, required) ==
    IF i > Len(params)
    THEN [type |-> "object", properties |-> properties, required |-> required]
    ELSE schema_from(params, i + 1,
                     DictSet(properties, params[i].name, param_schema(params[i])),
                     Append(required, params[i].name))

\* A plausible slip: the early return for no parameters is missing.
get_parameter_schema_no_early_return(params) ==
    schema_from(params, 1, EmptyDict, <<>>)

ResourceConfig_get_parameter_schema(params) ==
    IF Len(params) = 0
    THEN [type |-> "object", properties |-> EmptyDict]
    ELSE schema_from(params, 1, EmptyDict, <<>>)

Resource_get_parameter_schema(params) ==
    IF Len(params) = 0
    THEN [type |-> "object", properties |-> EmptyDict]
    ELSE schema_from(params, 1, EmptyDict, <<>>)

(***************************************************************************)
(* Descriptors (ResourceConfig) and the providers' state.                  *)
(* A descriptor is kept by its fields name, uri and function; description, *)
(* type and access are read by no fetch operation.                         *)
(***************************************************************************)
\* Optional[str]
NoneStr == [some |-> FALSE, v |-> ""]
SomeStr(s) == [some |-> TRUE, v |-> s]

ResourceConfig(name, uri, function) ==
    [name |-> name, uri |-> uri, function |-> function]

HTTP_OK == 200

\* Exceptions and results of a call.
NoOutcome == [kind |-> "none"]
Return(value) == [kind |-> "return", value |-> value]
Raise(exc, msg) == [kind |-> "raise", exc |-> exc, msg |-> msg]

AmbiguousMsg == [text |-> "Multi-resource classes need specific resource selection"]
NotFoundMsg(resource_name) ==
    [text |-> "Resource '{resource_name}' not found", resource_name |-> resource_name]
InvalidSchemeMsg(url) ==
    [text |-> "Invalid URL scheme for public resource: {url}", url |-> url]
HttpErrorMsg(status_code, url) ==
    [text |-> "HTTP error {status_code} when fetching {url}",
     status_code |-> status_code, url |-> url]
FailedToFetchMsg(url, e) ==
    [text |-> "Failed to fetch resource from {url}: {e}", url |-> url, e |-> e]
UnexpectedMsg(url, e) ==
    [text |-> "Unexpected error fetching {url}: {e}", url |-> url, e |-> e]
NoFunctionMsg(name) ==
    [text |-> "No function specified for mcp_server resource '{name}'", name |-> name]
FunctionNotFoundMsg(function_name) ==
    [text |-> "Function '{function_name}' not found in resource class",
     function_name |-> function_name]
NotCallableMsg == [text |-> "'str' object is not callable"]

\* What the HTTP client hands back to `await client.get(url)`.
NoResponse == [kind |-> "none"]
HttpResponse(status_code, text) ==
    [kind |-> "response", status_code |-> status_code, text |-> text]
RequestError(e) == [kind |-> "RequestError", e |-> e]
OtherException(e) == [kind |-> "Exception", e |-> e]

\* Events of one call, in order.
FetchRoutine == [HttpResource |-> "_fetch_http_content",
                 ExamplePrivateResources |-> "_get_mcp_content"]
DispatchEvent(routine, cfg, parameters) ==
    [ev |-> routine, cfg |-> cfg, parameters |-> parameters]
GetEvent(url) == [ev |-> "GET", url |-> url]
InvokeEvent(method, parameters) ==
    [ev |-> "invoke", method |-> method, parameters |-> parameters]

IdleCall ==
    [pc |-> "idle", op |-> "none", resource_name |-> "", parameters |-> NoneDict,
     cfg |-> 0, url |-> <<>>, trace |-> <<>>, response |-> NoResponse,
     outcome |-> NoOutcome]

Done(call, outcome) == [call EXCEPT !.pc = "done", !.outcome = outcome]

\* No fetch operation assigns to an attribute of the provider.
Frame ==
    /\ UNCHANGED <<provider, resource_instances, constructed>>
    /\ UNCHANGED substVars
    /\ UNCHANGED schemaVars

(***************************************************************************)
(* get_content and get_resource_content (the same code in both providers). *)
(***************************************************************************)
\* A plausible slip: any non-empty provider dispatches to its first descriptor.
get_content_dispatches_nonempty(instances) == Len(instances) >= 1

\* len(self.resource_instances) == 1
get_content_dispatches(instances) == Len(instances) = 1

\* A plausible slip: the loop has no break, the last match wins.
find_resource_last(instances, resource_name) ==
    LET hits == {i \in DOMAIN instances : instances[i].name = resource_name}
    IN IF hits = {} THEN 0 ELSE CHOOSE i \in hits : \A j \in hits : j <= i

\* A plausible slip: only the first descriptor is compared.
find_resource_head(instances, resource_name) ==
    IF Len(instances) >= 1 /\ instances[1].name = resource_name THEN 1 ELSE 0

\* The for loop with break: the index of the first descriptor whose name
\* equals resource_name, 0 for resource_config = None.
RECURSIVE find_from(_, _, _)
find_from(instances, resource_name, i) ==
    IF i > Len(instances) THEN 0
    ELSE IF instances[i].name = resource_name THEN i
    ELSE find_from(instances, resource_name, i + 1)

find_resource(instances, resource_name) == find_from(instances, resource_name, 1)

\* return await self._fetch_http_content(...) / self._get_mcp_content(...)
Dispatch(call, i) ==
    [call EXCEPT !.pc = FetchRoutine[provider],
                 !.cfg = i,
                 !.trace = Append(@, DispatchEvent(FetchRoutine[provider], i,
                                                   call.parameters))]

get_content(call, parameters) ==
    LET started == [call EXCEPT !.op = "get_content", !.parameters = parameters]
    IN IF get_content_dispatches(resource_instances)
       THEN Dispatch(started, 1)
       ELSE Done(started, Raise("ValueError", AmbiguousMsg))

get_resource_content(call, resource_name, parameters) ==
    LET started == [call EXCEPT !.op = "get_resource_content",
                                !.resource_name = resource_name,
                                !.parameters = parameters]
        i == find_resource(resource_instances, resource_name)
    IN IF i = 0
       THEN Done(started, Raise("ValueError", NotFoundMsg(resource_name)))
       ELSE Dispatch(started, i)

Call_get_content(c, P) ==
    /\ calls[c].pc = "idle"
    /\ \E parameters \in P :
          calls' = [calls EXCEPT ![c] = get_content(@, parameters)]
    /\ Frame

Call_get_resource_content(c, N, P) ==
    /\ calls[c].pc = "idle"
    /\ \E resource_name \in N, parameters \in P :
          calls' = [calls EXCEPT ![c] = get_resource_content(@, resource_name, parameters)]
    /\ Frame

(***************************************************************************)
(* HttpResource._fetch_http_content.                                       *)
(***************************************************************************)
HTTP_SCHEME == <<"h", "t", "t", "p", ":", "/", "/">>
HTTPS_SCHEME == <<"h", "t", "t", "p", "s", ":", "/", "/">>

\* A plausible slip: url.startswith('http')
scheme_ok_http_only(url) == startswith(url, <<"h", "t", "t", "p">>)

\* url.startswith(('http://', 'https://'))
scheme_ok(url) == startswith(url, HTTP_SCHEME) \/ startswith(url, HTTPS_SCHEME)

\* url after "if parameters:"
request_url(resource_config, parameters) ==
    IF Truthy(parameters)
    THEN substitute_parameters(resource_config.uri, validate_parameters(parameters))
    ELSE resource_config.uri

\* The body of the try block once client.get(url) has returned or raised.
try_body(url, response) ==
    IF response.kind = "response"
    THEN IF response.status_code = HTTP_OK
         THEN Return(response.text)
         ELSE Raise("ValueError", HttpErrorMsg(response.status_code, url))
    ELSE Raise(response.kind, response.e)

\* The except clauses: httpx.RequestError first, then every other Exception,
\* the ValueError raised in the try block included.
except_clauses(url, outcome) ==
    IF outcome.kind # "raise" THEN outcome
    ELSE IF outcome.exc = "RequestError"
         THEN Raise("ValueError", FailedToFetchMsg(url, outcome.msg))
         ELSE Raise("ValueError", UnexpectedMsg(url, outcome.msg))

\* A plausible slip: the substituted URL is stored back into the descriptor.
FetchHttpStoresUrl(c) ==
    /\ provider = "HttpResource"
    /\ calls[c].pc = "_fetch_http_content"
    /\ LET resource_config == resource_instances[calls[c].cfg]
           url == request_url(resource_config, calls[c].parameters)
       IN /\ calls' = [calls EXCEPT ![c] =
                IF scheme_ok(url)
                THEN [@ EXCEPT !.pc = "client.get", !.url = url]
                ELSE Done([@ EXCEPT !.url = url],
                          Raise("ValueError", InvalidSchemeMsg(url)))]
          /\ resource_instances' = [resource_instances EXCEPT ![calls[c].cfg].uri = url]
    /\ UNCHANGED <<provider, constructed>>
    /\ UNCHANGED substVars
    /\ UNCHANGED schemaVars

\* Substitution and the scheme check.
FetchHttp(c) ==
    /\ provider = "HttpResource"
    /\ calls[c].pc = "_fetch_http_content"
    /\ LET resource_config == resource_instances[calls[c].cfg]
           url == request_url(resource_config, calls[c].parameters)
       IN calls' = [calls EXCEPT ![c] =
             IF scheme_ok(url)
             THEN [@ EXCEPT !.pc = "client.get", !.url = url]
             ELSE Done([@ EXCEPT !.url = url],
                       Raise("ValueError", InvalidSchemeMsg(url)))]
    /\ Frame

\* response = await client.get(url): the request goes out, the call suspends.
IssueGet(c) ==
    /\ calls[c].pc = "client.get"
    /\ calls' = [calls EXCEPT ![c].pc = "awaiting",
                              ![c].trace = Append(@, GetEvent(calls[c].url))]
    /\ Frame

\* The call resumes with a response or an exception of the client.
Respond(c, R) ==
    /\ calls[c].pc = "awaiting"
    /\ \E response \in R :
          calls' = [calls EXCEPT ![c] =
             Done([@ EXCEPT !.response = response],
                  except_clauses(@.url, try_body(@.url, response)))]
    /\ Frame

(***************************************************************************)
(* ExamplePrivateResources._get_mcp_content and the sample handler.        *)
(***************************************************************************)
\* Attributes an instance built from a dict has: those set by __init__, and
\* the coroutine method the sample configuration names.  The other methods
\* of the class are attributes as well; no configuration of the model names
\* one of them as a handler.
InstanceAttributes ==
    {"resources_config", "class_name", "class_description", "resource_instances"}
HandlerMethods == {"_sample_parameterized_resource"}

hasattr(function_name) == function_name \in InstanceAttributes \cup HandlerMethods

\* parameters or {}, the argument of the handler
parameters_or_empty(parameters) ==
    IF Truthy(parameters) THEN parameters ELSE Dict(<<>>)

\* dict.get(key, default)
DictGet(parameters, key, default) ==
    LET hits == {i \in DOMAIN parameters.items : parameters.items[i].key = key}
    IN IF hits = {} THEN default ELSE parameters.items[CHOOSE i \in hits : TRUE].value

\* str.lower() on the letters the model uses
LowerChar(ch) ==
    IF ch = "A" THEN "a" ELSE IF ch = "B" THEN "b" ELSE IF ch = "Z" THEN "z" ELSE ch
lower(s) == [i \in DOMAIN s |-> LowerChar(s[i])]

CLIENT == <<"c", "l", "i", "e", "n", "t">>
ACME == <<"a", "c", "m", "e">>
BIGROCK == <<"b", "i", "g", "r", "o", "c", "k">>

_sample_parameterized_resource(parameters) ==
    LET client == lower(DictGet(parameters, CLIENT, StrVal(<<>>)).v)
    IN IF client = ACME THEN <<"This is the roadrunner client">>
       ELSE IF client = BIGROCK THEN <<"We make tools to smash birds">>
       ELSE <<"Unknown client: ">> \o client \o <<". Available clients: acme, bigrock">>

\* The checks of _get_mcp_content up to the call of the handler.
FetchMcp(c) ==
    /\ provider = "ExamplePrivateResources"
    /\ calls[c].pc = "_get_mcp_content"
    /\ LET resource_config == resource_instances[calls[c].cfg]
           function_name == resource_config.function.v
       IN calls' = [calls EXCEPT ![c] =
             IF ~resource_config.function.some \/ function_name = ""
             THEN Done(@, Raise("ValueError", NoFunctionMsg(resource_config.name)))
             ELSE IF hasattr(function_name)
             THEN IF function_name \in HandlerMethods
                  THEN [@ EXCEPT !.pc = "handler",
                                 !.trace = Append(@, InvokeEvent(function_name,
                                              parameters_or_empty(calls[c].parameters)))]
                  ELSE Done(@, Raise("TypeError", NotCallableMsg))
             ELSE Done(@, Raise("ValueError", FunctionNotFoundMsg(function_name)))]
    /\ Frame

\* The awaited handler returns.
HandlerReturn(c) ==
    /\ calls[c].pc = "handler"
    /\ calls' = [calls EXCEPT ![c] =
          Done(@, Return(_sample_parameterized_resource(
                            @.trace[Len(@.trace)].parameters)))]
    /\ Frame

\* The caller has taken the outcome; the call id is free again.
Finish(c) ==
    /\ calls[c].pc = "done"
    /\ calls' = [calls EXCEPT ![c] = IdleCall]
    /\ Frame

(***************************************************************************)
(* Idle values of the three groups of variables.                           *)
(***************************************************************************)
NoResult == [type |-> "none"]

ProvIdle ==
    /\ provider = "none"
    /\ resource_instances = <<>>
    /\ constructed = <<>>
    /\ calls = <<>>

SubstIdle ==
    /\ s_uri = <<>>
    /\ s_parameters = NoneDict
    /\ s_result = <<>>
    /\ s_pc = "idle"

SchemaIdle ==
    /\ g_via = "none"
    /\ resource_parameters = <<>>
    /\ schema = NoResult
    /\ g_pc = "idle"

(***************************************************************************)
(* Spec: one provider of either class, built from a bounded configuration, *)
(* serving one call at a time.                                             *)
(***************************************************************************)
ResourceNames == {"r1", "r2"}
RequestedNames == ResourceNames \cup {"nosuch"}

KEY_A == <<"a">>
T_HTTPS_A == HTTPS_SCHEME \o <<"h", "/">> \o placeholder(KEY_A)
T_A_SCHEME == placeholder(KEY_A) \o <<":", "/", "/", "h">>
T_FTP == <<"f", "t", "p", ":", "/", "/", "x">>
T_UPPER == <<"H", "T", "T", "P", ":", "/", "/", "h">>
UriTemplates == {T_HTTPS_A, T_A_SCHEME, T_FTP, T_UPPER}
MCP_URI == <<"m", "c", "p", ":", "/", "/", "s">>

Functions ==
    {NoneStr, SomeStr(""), SomeStr("_sample_parameterized_resource"),
     SomeStr("no_such_function"), SomeStr("class_name")}

Descriptors(p) ==
    IF p = "HttpResource"
    THEN {ResourceConfig(n, u, NoneStr) : n \in ResourceNames, u \in UriTemplates}
    ELSE {ResourceConfig(n, MCP_URI, f) : n \in ResourceNames, f \in Functions}

OneItem(key, value) == Dict(<<[key |-> key, value |-> value]>>)

HttpParams ==
    {NoneDict, Dict(<<>>)}
    \cup {OneItem(KEY_A, v) :
            v \in {StrVal(<<"h", "t", "t", "p">>),
                   StrVal(<<"h", "t", "t", "p", "x">>),
                   IntVal(7)}}

PrivateParams ==
    {NoneDict, Dict(<<>>)}
    \cup {OneItem(CLIENT, StrVal(v)) : v \in {<<"A", "c", "m", "e">>, BIGROCK, <<"Z">>}}

ParamChoices == IF provider = "HttpResource" THEN HttpParams ELSE PrivateParams

Responses ==
    [kind : {"response"}, status_code : {200, 201, 404}, text : {<<"ok">>, <<"no">>}]
    \cup {RequestError("ConnectError"), OtherException("DecodingError")}

SeqCallIds == {1}

Init ==
    /\ SubstIdle
    /\ SchemaIdle
    /\ provider \in {"HttpResource", "ExamplePrivateResources"}
    /\ resource_instances \in SeqsUpTo(Descriptors(provider), MaxResources)
    /\ constructed = resource_instances
    /\ calls = [c \in SeqCallIds |-> IdleCall]

Next ==
    \E c \in SeqCallIds :
        \/ Call_get_content(c, ParamChoices)
        \/ Call_get_resource_content(c, RequestedNames, ParamChoices)
        \/ FetchHttp(c)
        \/ IssueGet(c)
        \/ Respond(c, Responses)
        \/ FetchMcp(c)
        \/ HandlerReturn(c)
        \/ Finish(c)

Spec == Init /\ [][Next]_vars

(***************************************************************************)
(* SpecConc: NumCalls coroutines on one provider, interleaved at their     *)
(* suspension points.                                                      *)
(***************************************************************************)
ConcConfigs ==
    {[provider |-> "HttpResource",
      instances |-> <<ResourceConfig("r1", T_A_SCHEME, NoneStr),
                      ResourceConfig("r2", T_HTTPS_A, NoneStr)>>],
     [provider |-> "HttpResource",
      instances |-> <<ResourceConfig("r1", T_A_SCHEME, NoneStr)>>],
     [provider |-> "HttpResource",
      instances |-> <<ResourceConfig("r1", T_A_SCHEME, NoneStr),
                      ResourceConfig("r1", T_FTP, NoneStr)>>],
     [provider |-> "ExamplePrivateResources",
      instances |-> <<ResourceConfig("r1", MCP_URI, NoneStr),
                      ResourceConfig("r2", MCP_URI, SomeStr("no_such_function"))>>],
     [provider |-> "ExamplePrivateResources",
      instances |-> <<ResourceConfig("r1", MCP_URI,
                                     SomeStr("_sample_parameterized_resource")),
                      ResourceConfig("r2", MCP_URI, SomeStr("class_name"))>>],
     [provider |-> "ExamplePrivateResources",
      instances |-> <<ResourceConfig("r1", MCP_URI,
                                     SomeStr("_sample_parameterized_resource"))>>]}

ConcNames == {"r1", "r2", "nosuch"}

ConcParams ==
    IF provider = "HttpResource"
    THEN {NoneDict, OneItem(KEY_A, StrVal(<<"h", "t", "t", "p">>)),
          OneItem(KEY_A, IntVal(7))}
    ELSE {NoneDict, OneItem(CLIENT, StrVal(<<"A", "c", "m", "e">>))}

ConcResponses ==
    {HttpResponse(200, <<"ok">>), HttpResponse(404, <<"no">>),
     RequestError("ConnectError"), OtherException("DecodingError")}

ConcCallIds == 1..NumCalls

InitConc ==
    /\ SubstIdle
    /\ SchemaIdle
    /\ \E config \in ConcConfigs :
          /\ provider = config.provider
          /\ resource_instances = config.instances
    /\ constructed = resource_instances
    /\ calls = [c \in ConcCallIds |-> IdleCall]

NextConc ==
    \E c \in ConcCallIds :
        \/ Call_get_content(c, ConcParams)
        \/ Call_get_resource_content(c, ConcNames, ConcParams)
        \/ FetchHttp(c)
        \/ IssueGet(c)
        \/ Respond(c, ConcResponses)
        \/ FetchMcp(c)
        \/ HandlerReturn(c)

SpecConc == InitConc /\ [][NextConc]_vars

(***************************************************************************)
(* SpecSubst: substitute_parameters applied to bounded inputs.             *)
(***************************************************************************)
UriAlphabet == {"{", "}", "a", "b"}
SubstKeys == {<<"a">>, <<"b">>}
SubstValues == {StrVal(<<"x">>), StrVal(<<"{", "b", "}">>), IntVal(42)}

InitSubst ==
    /\ ProvIdle
    /\ SchemaIdle
    /\ s_uri \in SeqsUpTo(UriAlphabet, MaxUriLen)
    /\ s_parameters \in DictsOver(SubstKeys, SubstValues, MaxParams)
    /\ s_result = <<>>
    /\ s_pc = "call"

Substitute ==
    /\ s_pc = "call"
    /\ s_result' = substitute_parameters(s_uri, s_parameters)
    /\ s_pc' = "done"
    /\ UNCHANGED <<s_uri, s_parameters>>
    /\ UNCHANGED provVars
    /\ UNCHANGED schemaVars

NextSubst == Substitute

SpecSubst == InitSubst /\ [][NextSubst]_vars

(***************************************************************************)
(* SpecSchema: get_parameter_schema applied to bounded descriptors, as the  *)
(* method of the descriptor (ResourceConfig) or of a provider built from   *)
(* one descriptor (Resource.__init__ copies resource_parameters).          *)
(***************************************************************************)
ParamNames == {"p", "q"}
AllowedValues ==
    {StrAllowed("string"), StrAllowed("number"), StrAllowed("boolean"),
     StrAllowed("date"), ListAllowed(<<"x", "y">>)}
ParamDecls == [name : ParamNames, description : {"d"}, allowed_values : AllowedValues]

InitSchema ==
    /\ ProvIdle
    /\ SubstIdle
    /\ g_via \in {"ResourceConfig", "Resource"}
    /\ resource_parameters \in SeqsUpTo(ParamDecls, MaxParamDecls)
    /\ schema = NoResult
    /\ g_pc = "call"

GetParameterSchema ==
    /\ g_pc = "call"
    /\ schema' = IF g_via = "ResourceConfig"
                 THEN ResourceConfig_get_parameter_schema(resource_parameters)
                 ELSE Resource_get_parameter_schema(resource_parameters)
    /\ g_pc' = "done"
    /\ UNCHANGED <<g_via, resource_parameters>>
    /\ UNCHANGED provVars
    /\ UNCHANGED substVars

NextSchema == GetParameterSchema

SpecSchema == InitSchema /\ [][NextSchema]_vars

(***************************************************************************)
(* Claims about substitute_parameters and get_parameter_schema.            *)
(***************************************************************************)
\* The template scanned once: at a placeholder of a key of the mapping the
\* string form of its value is emitted, any other character is copied.
RECURSIVE single_pass(_, _)
single_pass(s, items) ==
    IF Len(s) = 0 THEN <<>>
    ELSE LET hits == {i \in DOMAIN items : startswith(s, placeholder(items[i].key))}
         IN IF hits = {}
            THEN <<Head(s)>> \o single_pass(Tail(s), items)
            ELSE LET i == CHOOSE j \in hits : TRUE
                 IN str(items[i].value)
                    \o single_pass(SubSeq(s, Len(placeholder(items[i].key)) + 1, Len(s)),
                                   items)

\* C5: the result of substitute_parameters(uri, parameters) is the template
\* with every occurrence of {key} replaced by the string form of the key's
\* value, and every other placeholder and all other text left untouched.
C5_SubstituteIsSinglePass ==
    s_pc = "done" => s_result = single_pass(s_uri, s_parameters.items)

Count(seq, x) == Cardinality({i \in DOMAIN seq : seq[i] = x})

\* C6: for a descriptor with at least one declared parameter, every declared
\* name is a key of properties and occurs exactly once in required, and
\* required holds no other name.
C6_EachNameOnceInPropertiesAndRequired ==
    (g_pc = "done" /\ Len(resource_parameters) >= 1) =>
        /\ DOMAIN schema = {"type", "properties", "required"}
        /\ \A i \in DOMAIN resource_parameters :
              /\ resource_parameters[i].name \in DOMAIN schema.properties
              /\ Count(schema.required, resource_parameters[i].name) = 1
        /\ Range(schema.required) \subseteq
              {resource_parameters[i].name : i \in DOMAIN resource_parameters}

\* C7 as stated: for a descriptor with no declared parameter the schema has
\* type "object", empty properties and an empty required list.
C7_EmptySchemaHasEmptyRequired ==
    (g_pc = "done" /\ Len(resource_parameters) = 0) =>
        /\ schema.type = "object"
        /\ DOMAIN schema.properties = {}
        /\ "required" \in DOMAIN schema
        /\ schema.required = <<>>

\* C7 amended: for a descriptor with no declared parameter the schema has
\* type "object", empty properties and no required entry at all.
C7_EmptySchemaHasNoRequired ==
    (g_pc = "done" /\ Len(resource_parameters) = 0) =>
        /\ DOMAIN schema = {"type", "properties"}
        /\ schema.type = "object"
        /\ DOMAIN schema.properties = {}

C7_Witness ==
    /\ g_pc = "done"
    /\ g_via = "Resource"
    /\ Len(resource_parameters) = 0
    /\ schema.type = "object"

(***************************************************************************)
(* Claims about the providers.                                             *)
(***************************************************************************)
HasPrefix(u, p) == Len(u) >= Len(p) /\ \A i \in 1..Len(p) : u[i] = p[i]
IsHttpUrl(u) == HasPrefix(u, HTTP_SCHEME) \/ HasPrefix(u, HTTPS_SCHEME)

EventsOf(call, ev) == {i \in DOMAIN call.trace : call.trace[i].ev = ev}
HasGet(call) == EventsOf(call, "GET") # {}

RoutineOf(p) == IF p = "HttpResource" THEN "_fetch_http_content" ELSE "_get_mcp_content"

\* C1: in the HTTP fetch, a substituted URI that does not start with
\* http:// or https:// ends the call with the invalid-target error and with
\* no GET issued; every GET that is issued carries a URI that passed the
\* scheme check.
C1_SchemeCheckedBeforeGet ==
    \A c \in DOMAIN calls :
        LET call == calls[c]
        IN (/\ provider = "HttpResource"
            /\ call.cfg # 0
            /\ call.pc \notin {"idle", "_fetch_http_content"}) =>
              LET u == request_url(constructed[call.cfg], call.parameters)
              IN /\ ~IsHttpUrl(u) =>
                       /\ call.pc = "done"
                       /\ call.outcome = Raise("ValueError", InvalidSchemeMsg(u))
                       /\ ~HasGet(call)
                 /\ \A i \in EventsOf(call, "GET") :
                       /\ call.trace[i].url = u
                       /\ IsHttpUrl(call.trace[i].url)

C1_Witness ==
    \E c \in DOMAIN calls :
        /\ provider = "HttpResource"
        /\ calls[c].pc = "done"
        /\ calls[c].cfg # 0
        /\ Truthy(calls[c].parameters)
        /\ calls[c].url # resource_instances[calls[c].cfg].uri
        /\ calls[c].outcome = Raise("ValueError", InvalidSchemeMsg(calls[c].url))
        /\ ~HasGet(calls[c])

\* C2: once the GET has been issued, status 200 returns exactly the body
\* text, and every other status fails with the status error itself, which
\* carries the status code and the URL.
C2_StatusDecidesOutcome ==
    \A c \in DOMAIN calls :
        LET call == calls[c]
        IN (call.pc = "done" /\ HasGet(call) /\ call.response.kind = "response") =>
              IF call.response.status_code = 200
              THEN call.outcome = Return(call.response.text)
              ELSE call.outcome =
                      Raise("ValueError",
                            HttpErrorMsg(call.response.status_code, call.url))

\* C3: get_content on a provider of two or more descriptors fails with the
\* ambiguous-selection error and dispatches nothing; on a provider of
\* exactly one descriptor it dispatches to the fetch routine of the provider
\* with that descriptor and the given parameters.
C3_GetContentSelection ==
    \A c \in DOMAIN calls :
        LET call == calls[c]
        IN call.op = "get_content" =>
              /\ Len(resource_instances) >= 2 =>
                    /\ call.pc = "done"
                    /\ call.outcome = Raise("ValueError", AmbiguousMsg)
                    /\ call.trace = <<>>
              /\ Len(resource_instances) = 1 =>
                    /\ call.cfg = 1
                    /\ Len(call.trace) >= 1
                    /\ call.trace[1] =
                          [ev |-> RoutineOf(provider), cfg |-> 1,
                           parameters |-> call.parameters]

C3_Witness ==
    \E c \in DOMAIN calls :
        /\ provider = "ExamplePrivateResources"
        /\ Len(resource_instances) >= 2
        /\ calls[c].op = "get_content"
        /\ Truthy(calls[c].parameters)
        /\ calls[c].pc = "done"
        /\ calls[c].outcome = Raise("ValueError", AmbiguousMsg)

\* C4: get_resource_content fails with the not-found error exactly when no
\* descriptor has the requested name, whatever the parameters, and then
\* nothing is dispatched, requested or invoked.
C4_NotFoundIffNoMatch ==
    \A c \in DOMAIN calls :
        LET call == calls[c]
            nomatch == \A i \in DOMAIN resource_instances :
                          resource_instances[i].name # call.resource_name
            notfound == call.outcome =
                           Raise("ValueError", NotFoundMsg(call.resource_name))
        IN call.op = "get_resource_content" =>
              /\ nomatch => (call.pc = "done" /\ notfound /\ call.trace = <<>>)
              /\ ~nomatch => (~notfound /\ call.trace # <<>>)

C4_Witness ==
    \E c \in DOMAIN calls :
        /\ Len(resource_instances) >= 1
        /\ calls[c].op = "get_resource_content"
        /\ calls[c].resource_name = "nosuch"
        /\ Truthy(calls[c].parameters)
        /\ calls[c].pc = "done"
        /\ calls[c].outcome = Raise("ValueError", NotFoundMsg("nosuch"))

\* C8: in the function-dispatch fetch, a descriptor without a handler name
\* fails with "no function specified", a handler name that is no method of
\* the provider fails with "function not found", both without invoking
\* anything; otherwise the method is invoked once with the parameters (the
\* empty mapping for none) and its result is returned.
C8_HandlerDispatch ==
    \A c \in DOMAIN calls :
        LET call == calls[c]
        IN (/\ provider = "ExamplePrivateResources"
            /\ call.cfg # 0
            /\ call.pc = "done") =>
              LET resource_config == resource_instances[call.cfg]
                  f == resource_config.function
                  invoked == EventsOf(call, "invoke")
                  arg == IF Truthy(call.parameters) THEN call.parameters ELSE Dict(<<>>)
              IN IF ~f.some \/ f.v = ""
                 THEN /\ call.outcome =
                            Raise("ValueError", NoFunctionMsg(resource_config.name))
                      /\ invoked = {}
                 ELSE IF f.v \notin HandlerMethods
                 THEN /\ call.outcome = Raise("ValueError", FunctionNotFoundMsg(f.v))
                      /\ invoked = {}
                 ELSE /\ Cardinality(invoked) = 1
                      /\ \A i \in invoked :
                            call.trace[i] = [ev |-> "invoke", method |-> f.v,
                                             parameters |-> arg]
                      /\ call.outcome = Return(_sample_parameterized_resource(arg))

\* What a call returns or raises when it runs alone on the provider as
\* constructed, given its inputs and the response it received.
AloneOutcome(call) ==
    LET hits == {i \in DOMAIN constructed : constructed[i].name = call.resource_name}
        sel == IF call.op = "get_content"
               THEN IF Len(constructed) = 1 THEN 1 ELSE 0
               ELSE IF hits = {} THEN 0 ELSE CHOOSE i \in hits : \A j \in hits : i <= j
    IN IF sel = 0
       THEN IF call.op = "get_content"
            THEN Raise("ValueError", AmbiguousMsg)
            ELSE Raise("ValueError", NotFoundMsg(call.resource_name))
       ELSE IF provider = "HttpResource"
       THEN LET u == request_url(constructed[sel], call.parameters)
                r == call.response
            IN IF ~IsHttpUrl(u) THEN Raise("ValueError", InvalidSchemeMsg(u))
               ELSE IF r.kind = "response"
               THEN IF r.status_code = 200 THEN Return(r.text)
                    ELSE Raise("ValueError",
                               UnexpectedMsg(u, HttpErrorMsg(r.status_code, u)))
               ELSE IF r.kind = "RequestError"
               THEN Raise("ValueError", FailedToFetchMsg(u, r.e))
               ELSE Raise("ValueError", UnexpectedMsg(u, r.e))
       ELSE LET f == constructed[sel].function
            IN IF ~f.some \/ f.v = ""
               THEN Raise("ValueError", NoFunctionMsg(constructed[sel].name))
               ELSE IF f.v \in HandlerMethods
               THEN Return(_sample_parameterized_resource(
                              parameters_or_empty(call.parameters)))
               ELSE IF f.v \in InstanceAttributes
               THEN Raise("TypeError", NotCallableMsg)
               ELSE Raise("ValueError", FunctionNotFoundMsg(f.v))

C10_FirstMatchSelected ==
    \A c \in DOMAIN calls :
        LET call == calls[c]
        IN call.cfg # 0 =>
              /\ \A j \in 1..(call.cfg - 1) :
                    resource_instances[j].name # resource_instances[call.cfg].name
              /\ call.op = "get_resource_content" =>
                    resource_instances[call.cfg].name = call.resource_name
              /\ \A i \in EventsOf(call, RoutineOf(provider)) :
                    call.trace[i].cfg = call.cfg

C10_Witness ==
    \E c \in DOMAIN calls :
        /\ Len(resource_instances) >= 2
        /\ resource_instances[1].name = resource_instances[2].name
        /\ resource_instances[1] # resource_instances[2]
        /\ calls[c].op = "get_resource_content"
        /\ calls[c].resource_name = resource_instances[2].name
        /\ calls[c].cfg = 1
        /\ calls[c].pc = "done"
        /\ calls[c].outcome.kind = "return"

====
